---------------------------- MODULE Spec2Model ----------------------------
(***************************************************************************)
(* Model of LLMService (backend/app/llm.py): one run of synthesize, with   *)
(* the Hugging Face inference call as the environment, the response        *)
(* parser/validator and the deterministic keyword fallback.                *)
(*                                                                         *)
(* Representation of Python values:                                        *)
(*   - a str that the code searches or slices (question, content) is a     *)
(*     sequence of one-character strings;                                  *)
(*   - a str that is only produced (answers, prompts) is a sequence of     *)
(*     pieces, each piece a TLA+ string, the str being their               *)
(*     concatenation;                                                      *)
(*   - a dict is a function whose DOMAIN is the set of keys present;       *)
(*   - None is the value None below;                                       *)
(*   - a confidence c is the integer 10*c (0.5 is 5).                      *)
(***************************************************************************)
EXTENDS Integers, Sequences, FiniteSets, TLC

VARIABLES
    question,        \* synthesize argument: the question, a character sequence
    docs,            \* synthesize argument: the retrieved documents
    agent_hint,      \* synthesize argument
    hf_api_key,      \* LLMService.hf_api_key, read from HF_API_KEY at construction
    pc,              \* position of the synthesize coroutine
    full_prompt,     \* the prompt built at lines 26-33
    http_calls,      \* number of POSTs sent to the inference endpoint in this run
    http_resp,       \* what the endpoint did with the POST
    exc,             \* the exception in flight inside synthesize, "" when none
    response_text,   \* value returned by _call_hf
    result,          \* value returned by synthesize to its caller
    returns,         \* number of return statements of synthesize executed
    raised,          \* TRUE when an exception left synthesize
    caught,          \* TRUE when the except clause of line 42 ran
    fallback_used    \* TRUE when line 46 ran

vars == <<question, docs, agent_hint, hf_api_key, pc, full_prompt, http_calls,
          http_resp, exc, response_text, result, returns, raised, caught, fallback_used>>

---------------------------------------------------------------------------
(* Bounds of the model. *)

\* longest document list
MaxDocs == 3
\* most vocabulary words concatenated into one question
MaxWords == 2
\* cap on the POST counter (the code sends at most one)
MaxHttpCalls == 2
\* length of the long document content (past both slices, 150 and 160)
LongContentLen == 170

---------------------------------------------------------------------------
(* Python primitives. *)

None == "<None>"

\* bool(v) for the optional strings of the model (None and "" are falsy)
Truthy(v) == v # None /\ v # ""

\* d.get(k, default)
Get(d, k, default) == IF k \in DOMAIN d THEN d[k] ELSE default

\* s[:n]
Prefix(s, n) == SubSeq(s, 1, IF Len(s) < n THEN Len(s) ELSE n)

UpperCase == <<"A","B","C","D","E","F","G","H","I","J","K","L","M",
               "N","O","P","Q","R","S","T","U","V","W","X","Y","Z">>
LowerCase == <<"a","b","c","d","e","f","g","h","i","j","k","l","m",
               "n","o","p","q","r","s","t","u","v","w","x","y","z">>

\* str.lower() on one character
LowerChar(c) ==
    IF \E i \in 1..Len(UpperCase) : UpperCase[i] = c
    THEN LowerCase[CHOOSE i \in 1..Len(UpperCase) : UpperCase[i] = c]
    ELSE c

\* str.lower()
Lower(s) == [i \in 1..Len(s) |-> LowerChar(s[i])]

\* k in s, for strings: k occurs in s as a contiguous substring
Contains(s, k) ==
    \E i \in 0..(Len(s) - Len(k)) : \A j \in 1..Len(k) : s[i + j] = k[j]

IsSpace(c) == c \in {" ", "\n", "\t"}

\* str.strip() on a character sequence
StripChars(s) ==
    IF \A i \in 1..Len(s) : IsSpace(s[i])
    THEN <<>>
    ELSE LET first == CHOOSE i \in 1..Len(s) :
                          ~IsSpace(s[i]) /\ \A j \in 1..(i - 1) : IsSpace(s[j])
             last  == CHOOSE i \in 1..Len(s) :
                          ~IsSpace(s[i]) /\ \A j \in (i + 1)..Len(s) : IsSpace(s[j])
         IN  SubSeq(s, first, last)

\* " ".join(parts) for a list of character sequences
RECURSIVE JoinSpace(_)
JoinSpace(parts) ==
    IF parts = <<>> THEN <<>>
    ELSE IF Len(parts) = 1 THEN parts[1]
    ELSE parts[1] \o <<" ">> \o JoinSpace(Tail(parts))

\* [doc.get('id') for doc in docs if doc.get('id')]
RECURSIVE KeepIds(_)
KeepIds(ds) ==
    IF ds = <<>> THEN <<>>
    ELSE LET id == Get(ds[1], "id", None)
         IN  (IF Truthy(id) THEN <<id>> ELSE <<>>) \o KeepIds(Tail(ds))

---------------------------------------------------------------------------
(* _deterministic_fallback, lines 126-168. *)

\* line 129 and line 156: the snippet slice
SnippetLen == 150
\* line 143: the slice of the combined content used in the generic answer
BaseLen == 160
\* line 129: docs[:2]
SnippetDocs == 2
\* line 162: actions[:2]
MaxActions == 2
\* line 148: confidence = 0.5, in tenths
FallbackConfidence == 5

KwWater      == <<"w","a","t","e","r">>
KwIrrigat    == <<"i","r","r","i","g","a","t">>
KwRain       == <<"r","a","i","n">>
KwPest       == <<"p","e","s","t">>
KwDisease    == <<"d","i","s","e","a","s","e">>
KwBug        == <<"b","u","g">>
KwFertilizer == <<"f","e","r","t","i","l","i","z","e","r">>
KwNutrient   == <<"n","u","t","r","i","e","n","t">>

\* line 133
IrrigationKeywords == {KwWater, KwIrrigat, KwRain}
\* line 136
PestKeywords == {KwPest, KwDisease, KwBug}
\* line 139
FertilizerKeywords == {KwFertilizer, KwNutrient}

\* any(k in question.lower() for k in keywords)
AnyKeyword(q, keywords) == \E k \in keywords : Contains(Lower(q), k)

\* (string literals are ASCII: the source's en dash U+2013 is written "-" and its
\* em dash U+2014 is written "--")
IrrigationAnswer ==
    <<"Check soil moisture at 2-3 inch depth and consider current rainfall before irrigating.">>
IrrigationActions == <<"Check soil moisture", "Review local forecast">>
PestAnswer ==
    <<"Use Integrated Pest Management (IPM) practices and consult local experts for specific guidance.">>
PestActions == <<"Remove affected parts", "Consult KVK expert">>
FertilizerAnswer ==
    <<"Do a soil test first and apply a balanced fertilizer as recommended by local guidelines.">>
FertilizerActions == <<"Get soil test", "Follow local guidance">>
GenericSuffix == <<" Please consult local experts for specific advice.">>
GenericActions == <<"Consult agricultural officer">>
LimitedInfo == <<"Information is limited.">>

\* lines 129-130
CombinedContent(ds) ==
    LET firstDocs == Prefix(ds, SnippetDocs)
        snippets  == [i \in 1..Len(firstDocs) |->
                         Prefix(Get(firstDocs[i], "content", <<>>), SnippetLen)]
    IN  StripChars(JoinSpace(snippets))

\* mutant: the pest group tested before the irrigation group
FallbackBranch_PestFirst(q) ==
    IF AnyKeyword(q, PestKeywords) THEN "pest"
    ELSE IF AnyKeyword(q, IrrigationKeywords) THEN "irrigation"
    ELSE IF AnyKeyword(q, FertilizerKeywords) THEN "fertilizer"
    ELSE "generic"

\* mutant: the fertilizer group tested before the pest group
FallbackBranch_FertilizerBeforePest(q) ==
    IF AnyKeyword(q, IrrigationKeywords) THEN "irrigation"
    ELSE IF AnyKeyword(q, FertilizerKeywords) THEN "fertilizer"
    ELSE IF AnyKeyword(q, PestKeywords) THEN "pest"
    ELSE "generic"

\* lines 133-145: the branch taken
FallbackBranch(q) ==
    IF AnyKeyword(q, IrrigationKeywords) THEN "irrigation"
    ELSE IF AnyKeyword(q, PestKeywords) THEN "pest"
    ELSE IF AnyKeyword(q, FertilizerKeywords) THEN "fertilizer"
    ELSE "generic"

\* lines 133-145: answer
FallbackAnswer(q, ds) ==
    LET branch == FallbackBranch(q)
    IN  IF branch = "irrigation" THEN IrrigationAnswer
        ELSE IF branch = "pest" THEN PestAnswer
        ELSE IF branch = "fertilizer" THEN FertilizerAnswer
        ELSE LET combined == CombinedContent(ds)
                 base == IF combined # <<>> THEN Prefix(combined, BaseLen)
                         ELSE LimitedInfo
             IN  base \o GenericSuffix

\* lines 133-145: actions
FallbackActions(q) ==
    LET branch == FallbackBranch(q)
    IN  IF branch = "irrigation" THEN IrrigationActions
        ELSE IF branch = "pest" THEN PestActions
        ELSE IF branch = "fertilizer" THEN FertilizerActions
        ELSE GenericActions

\* mutant: sources built from docs[:2], like the snippets of line 129
FallbackSources_FirstTwo(ds) ==
    [i \in 1..Len(Prefix(ds, SnippetDocs)) |->
        [title   |-> Get(ds[i], "title", "Agricultural Guide"),
         url     |-> Get(ds[i], "source_url", "#"),
         snippet |-> Prefix(Get(ds[i], "content", <<>>), SnippetLen)]]

\* lines 151-157
FallbackSources(ds) ==
    [i \in 1..Len(ds) |->
        [title   |-> Get(ds[i], "title", "Agricultural Guide"),
         url     |-> Get(ds[i], "source_url", "#"),
         snippet |-> Prefix(Get(ds[i], "content", <<>>), SnippetLen)]]

\* lines 115-118 and 164-167
Meta(ds, hint) == [agent |-> hint, retrieved_ids |-> KeepIds(ds)]

\* mutant: the generic branch reports a lower confidence
_deterministic_fallback_BranchConfidence(q, ds, hint) ==
    [answer     |-> FallbackAnswer(q, ds),
     confidence |-> IF FallbackBranch(q) = "generic" THEN 3 ELSE FallbackConfidence,
     actions    |-> Prefix(FallbackActions(q), MaxActions),
     sources    |-> FallbackSources(ds),
     meta       |-> Meta(ds, hint)]

\* lines 159-168
_deterministic_fallback(q, ds, hint) ==
    [answer     |-> FallbackAnswer(q, ds),
     confidence |-> FallbackConfidence,
     actions    |-> Prefix(FallbackActions(q), MaxActions),
     sources    |-> FallbackSources(ds),
     meta       |-> Meta(ds, hint)]

---------------------------------------------------------------------------
(* JSON values and response texts.                                         *)
(* A JSON value (and the Python value json.loads makes of it) is a tagged  *)
(* tuple.  A text that the parser reads is a sequence of lexical tokens:   *)
(* whitespace, the opening fence (three backquotes and "json"), the bare   *)
(* fence (three backquotes), a word of prose, or the serialisation of one  *)
(* JSON value.                                                             *)

JNull == <<"null">>
JNum(n) == <<"number", n>>
JStr(tokens) == <<"string", tokens>>
JArr(items) == <<"array", items>>
JObj(members) == <<"object", members>>

TokWs == <<"ws">>
TokFenceJson == <<"fence_json">>
TokFence == <<"fence">>
TokWord(w) == <<"word", w>>
TokJson(v) == <<"json", v>>

EmptyDict == [k \in {} |-> JNull]

\* bool(v) for a decoded JSON value
JTruthy(v) ==
    /\ v # JNull
    /\ v # JNum(0)
    /\ v # JStr(<<>>)
    /\ v # JArr(<<>>)
    /\ v # JObj(EmptyDict)

\* json.dumps(v): the text holding exactly the serialisation of v
json_dumps(v) == <<TokJson(v)>>

\* str.strip() on a token text
RECURSIVE StripLeft(_)
StripLeft(t) == IF t # <<>> /\ t[1] = TokWs THEN StripLeft(Tail(t)) ELSE t

RECURSIVE StripRight(_)
StripRight(t) ==
    IF t # <<>> /\ t[Len(t)] = TokWs THEN StripRight(SubSeq(t, 1, Len(t) - 1)) ELSE t

StripTokens(t) == StripRight(StripLeft(t))

\* mutant: the trailing fence is left in place
StripFences_LeadingOnly(t) ==
    LET s1 == StripTokens(t)
    IN  IF s1 # <<>> /\ s1[1] = TokFenceJson THEN Tail(s1) ELSE s1

\* lines 101-105: strip, then drop a leading json fence and a trailing fence
StripFences(t) ==
    LET s1 == StripTokens(t)
        s2 == IF s1 # <<>> /\ s1[1] = TokFenceJson THEN Tail(s1) ELSE s1
        s3 == IF s2 # <<>> /\ s2[Len(s2)] = TokFence
              THEN SubSeq(s2, 1, Len(s2) - 1) ELSE s2
    IN  s3

\* json.loads(t): surrounding whitespace is skipped; anything but exactly one
\* value is a JSONDecodeError
json_loads(t) ==
    LET body == StripTokens(t)
    IN  IF Len(body) = 1 /\ body[1][1] = "json"
        THEN [ok |-> TRUE, value |-> body[1][2]]
        ELSE [ok |-> FALSE, value |-> JNull]

---------------------------------------------------------------------------
(* Exceptions. *)

ExceptionTypes == {"httpx.TransportError", "RuntimeError", "ValueError",
                   "AttributeError", "TypeError", "JSONDecodeError", "KeyError"}

\* line 122: except (json.JSONDecodeError, KeyError)
ParseCatches(e) == e \in {"JSONDecodeError", "KeyError"}

\* mutant: only the errors _call_hf raises itself are caught
SynthesizeCatches_OwnErrors(e) == e \in {"RuntimeError", "ValueError"}

\* line 42: except Exception
SynthesizeCatches(e) == e \in ExceptionTypes

\* how a call ended: it returned a value, returned None, or raised exc
Returned(v) == [raised |-> FALSE, none |-> FALSE, exc |-> "", value |-> v]
ReturnedNone == [raised |-> FALSE, none |-> TRUE, exc |-> "", value |-> JNull]
Raised(e) == [raised |-> TRUE, none |-> FALSE, exc |-> e, value |-> JNull]

---------------------------------------------------------------------------
(* _call_hf, lines 69-95.  resp is what the endpoint did with the POST.    *)

HttpOk == 200

\* lines 86-95: from the decoded body to the generated text
ExtractGenerated(data) ==
    IF data[1] = "array" /\ Len(data[2]) > 0
    THEN LET first == data[2][1]
         IN  IF first[1] # "object"
             THEN Raised("AttributeError")
             ELSE LET generated == Get(first[2], "generated_text", JNull)
                      summary   == Get(first[2], "summary_text", JNull)
                  IN  IF JTruthy(generated) THEN Returned(generated)
                      ELSE IF JTruthy(summary) THEN Returned(summary)
                      ELSE Returned(JStr(json_dumps(data)))
    ELSE IF data[1] = "object"
    THEN Returned(Get(data[2], "generated_text", JStr(json_dumps(data))))
    ELSE Raised("ValueError")

\* lines 80-95
_call_hf(resp) ==
    IF ~resp.transport_ok THEN Raised("httpx.TransportError")
    ELSE IF resp.status_code # HttpOk THEN Raised("RuntimeError")
    ELSE IF ~resp.body_is_json THEN Raised("JSONDecodeError")
    ELSE ExtractGenerated(resp.data)

---------------------------------------------------------------------------
(* _parse_and_validate_response, lines 97-124. *)

\* line 110
RequiredFields == {"answer", "confidence", "actions", "sources"}

\* field in parsed, by the type of parsed (line 111)
FieldIn(field, parsed) ==
    IF parsed[1] = "object" THEN field \in DOMAIN parsed[2]
    ELSE IF parsed[1] = "array"
    THEN \E i \in 1..Len(parsed[2]) : parsed[2][i] = JStr(<<TokWord(field)>>)
    ELSE \E i \in 1..Len(parsed[2]) : parsed[2][i] = TokWord(field)

\* mutant: any() where the code has all()
AllRequiredIn_Any(parsed) == \E field \in RequiredFields : FieldIn(field, parsed)

\* line 111: all(field in parsed for field in required_fields)
AllRequiredIn(parsed) == \A field \in RequiredFields : FieldIn(field, parsed)

\* lines 115-120: parsed["meta"] = {...}; return parsed
WithMeta(members, ds, hint) ==
    [k \in (DOMAIN members) \cup {"meta"} |->
        IF k = "meta" THEN Meta(ds, hint) ELSE members[k]]

\* lines 107-120, given the decoded value
ValidateParsed(parsed, ds, hint) ==
    IF parsed[1] \notin {"object", "array", "string"}
    THEN Raised("TypeError")
    ELSE IF ~AllRequiredIn(parsed) THEN ReturnedNone
    ELSE IF parsed[1] # "object" THEN Raised("TypeError")
    ELSE Returned(WithMeta(parsed[2], ds, hint))

\* lines 99-124
_parse_and_validate_response(response, ds, hint) ==
    IF response[1] # "string"
    THEN Raised("AttributeError")
    ELSE LET loaded == json_loads(StripFences(response[2]))
             inner  == IF loaded.ok THEN ValidateParsed(loaded.value, ds, hint)
                       ELSE Raised("JSONDecodeError")
         IN  IF inner.raised /\ ParseCatches(inner.exc)
             THEN ReturnedNone
             ELSE inner

---------------------------------------------------------------------------
(* Prompt construction, lines 26-33 and 48-67. *)

\* line 63: content[:500]
PromptContentLen == 500

Placeholder == "<<USER_QUESTION>>"

\* lines 54-55: the template used when the file is missing
DefaultTemplate == <<"You are FarmGuru. ... User question: ", Placeholder>>

\* prompt_templates/rag_prompt.txt: missing, or present with some content
TemplateFiles == {
    [exists |-> FALSE, text |-> <<>>],
    [exists |-> TRUE, text |-> <<"Answer from the passages. Q: ", Placeholder, " A:">>] }

\* lines 50-55: the file's content, or the default on FileNotFoundError
_load_prompt_template(file) == IF file.exists THEN file.text ELSE DefaultTemplate

\* str.replace(old, new) on a piece sequence whose placeholder is one piece
RECURSIVE ReplacePiece(_, _, _)
ReplacePiece(t, old, new) ==
    IF t = <<>> THEN <<>>
    ELSE (IF t[1] = old THEN new ELSE <<t[1]>>) \o ReplacePiece(Tail(t), old, new)

\* line 65, for document i
FormatDoc(i, doc) ==
    <<"[DOC", ToString(i), "] Title: ", Get(doc, "title", "Unknown"),
      ", URL: ", Get(doc, "source_url", "No URL"), "\n">>
        \o Prefix(Get(doc, "content", <<>>), PromptContentLen)

\* "\n\n".join(formatted_docs), line 67
RECURSIVE JoinDocs(_, _)
JoinDocs(ds, i) ==
    IF i > Len(ds) THEN <<>>
    ELSE FormatDoc(i, ds[i])
            \o (IF i < Len(ds) THEN <<"\n\n">> ELSE <<>>)
            \o JoinDocs(ds, i + 1)

\* lines 57-67
_format_docs_for_prompt(ds) == JoinDocs(ds, 1)

\* lines 26-33
BuildFullPrompt(file, q, ds) ==
    ReplacePiece(_load_prompt_template(file), Placeholder, q)
        \o <<"\nRetrieved docs:\n">> \o _format_docs_for_prompt(ds)
        \o <<"\n\nReturn only JSON.">>

---------------------------------------------------------------------------
(* Inputs. *)

\* a content longer than both slices, every position recognisable
LongContent ==
    [i \in 1..LongContentLen |->
        IF i % 10 = 0 THEN " " ELSE LowerCase[(i % 26) + 1]]

DocFull == [id |-> "doc-1", title |-> "Drip irrigation guide",
            source_url |-> "https://example.org/drip", content |-> LongContent]
DocBare == [content |-> <<" ", "o", "k", " ">>]
DocNoContent == [id |-> "doc-3", title |-> "Soil health card"]

DocPool == {DocFull, DocBare, DocNoContent}

RECURSIVE SeqsUpTo(_, _)
SeqsUpTo(S, n) ==
    IF n = 0 THEN {<<>>}
    ELSE LET shorter == SeqsUpTo(S, n - 1)
         IN  shorter \cup {Append(t, x) : t \in shorter, x \in S}

DocLists == SeqsUpTo(DocPool, MaxDocs)

Words == {
    <<"I","R","R","I","G","A","T","E"," ">>,
    <<"w","a","t","e","r"," ">>,
    <<"R","a","i","n"," ">>,
    <<"p","e","s","t","s"," ">>,
    <<"D","i","s","e","a","s","e"," ">>,
    <<"B","U","G"," ">>,
    <<"f","e","r","t","i","l","i","z","e","r"," ">>,
    <<"N","u","t","r","i","e","n","t"," ">>,
    <<"c","r","o","p"," ">> }

RECURSIVE Concat(_)
Concat(ws) == IF ws = <<>> THEN <<>> ELSE ws[1] \o Concat(Tail(ws))

\* the questions of at most n vocabulary words
Questions(n) == {Concat(ws) : ws \in SeqsUpTo(Words, n)}

\* the questions a whole run of synthesize is started on: one per branch of
\* the fallback
RunQuestions == {
    <<>>,
    <<"I","R","R","I","G","A","T","E"," ">>,
    <<"p","e","s","t","s"," ">>,
    <<"N","u","t","r","i","e","n","t"," ">>,
    <<"c","r","o","p"," ">> }

AgentHints == {"general", "irrigation"}

\* HF_API_KEY unset, set to the empty string, set to a token
ApiKeys == {None, "", "hf_token"}

---------------------------------------------------------------------------
(* What the inference endpoint may answer. *)

ModelAnswer == JStr(<<TokWord("Irrigate"), TokWs, TokWord("weekly.")>>)
ModelMembers ==
    [answer |-> ModelAnswer, confidence |-> JNum(8),
     actions |-> JArr(<<JStr(<<TokWord("Mulch")>>)>>), sources |-> JArr(<<>>)]
ValidObject == JObj(ModelMembers)
\* the model already wrote a meta member
ValidObjectWithMeta ==
    JObj([k \in (DOMAIN ModelMembers) \cup {"meta"} |->
            IF k = "meta" THEN JStr(<<TokWord("model")>>) ELSE ModelMembers[k]])
NoConfidenceObject ==
    JObj([k \in (DOMAIN ModelMembers) \ {"confidence"} |-> ModelMembers[k]])
ErrorObject == JObj([error |-> JStr(<<TokWord("Model is loading")>>)])
FieldNameArray ==
    JArr(<<JStr(<<TokWord("answer")>>), JStr(<<TokWord("confidence")>>),
           JStr(<<TokWord("actions")>>), JStr(<<TokWord("sources")>>)>>)
FieldNameString ==
    JStr(<<TokWord("answer"), TokWs, TokWord("confidence"), TokWs,
           TokWord("actions"), TokWs, TokWord("sources")>>)

GeneratedTexts == {
    <<TokJson(ValidObject)>>,
    <<TokWs, TokFenceJson, TokWs, TokJson(ValidObject), TokWs, TokFence, TokWs>>,
    <<TokJson(ValidObjectWithMeta), TokFence>>,
    <<TokFence, TokJson(ValidObject), TokFence>>,
    <<TokWord("Sure:"), TokWs, TokJson(ValidObject)>>,
    <<TokJson(NoConfidenceObject)>>,
    <<TokFenceJson, TokJson(JObj(EmptyDict)), TokFence>>,
    <<TokJson(JNum(42))>>,
    <<TokJson(JNull)>>,
    <<TokJson(FieldNameArray)>>,
    <<TokJson(FieldNameString)>>,
    <<TokWs>> }

JsonBodies ==
    {JArr(<<JObj([generated_text |-> JStr(t)])>>) : t \in GeneratedTexts}
    \cup {
      JArr(<<JObj([summary_text |-> JStr(<<TokFenceJson, TokJson(ValidObject)>>)])>>),
      JArr(<<JObj([generated_text |-> JStr(<<>>), summary_text |-> JNull])>>),
      JArr(<<JObj([generated_text |-> JNum(7)])>>),
      JArr(<<JStr(<<TokWord("text")>>)>>),
      JArr(<<>>),
      JObj([generated_text |-> JStr(<<TokJson(ValidObject), TokWs>>)]),
      JObj([generated_text |-> JNull]),
      ErrorObject,
      ValidObject,
      JStr(<<TokWord("ok")>>) }

HttpResponse(t, s, j, d) ==
    [transport_ok |-> t, status_code |-> s, body_is_json |-> j, data |-> d]

HttpResponses ==
    {HttpResponse(FALSE, 0, FALSE, JNull)}
    \cup {HttpResponse(TRUE, s, TRUE, ErrorObject) : s \in {500, 503}}
    \cup {HttpResponse(TRUE, HttpOk, FALSE, JNull)}
    \cup {HttpResponse(TRUE, HttpOk, TRUE, d) : d \in JsonBodies}

---------------------------------------------------------------------------
(* synthesize, lines 14-46. *)

\* line 16: not docs
NoDocs(ds) == ds = <<>>

\* mutant: "is not None" where the code tests truthiness
KeyConfigured_NotNone(key) == key # None

\* line 36: if self.hf_api_key
KeyConfigured(key) == Truthy(key)

\* mutant: the default agent label instead of the caller's hint
DontKnowResult_DefaultAgent(hint) ==
    [answer     |-> <<"I don't know -- please consult a local expert.">>,
     confidence |-> 0,
     actions    |-> <<"Ask a local agricultural expert">>,
     sources    |-> <<>>,
     meta       |-> [agent |-> "general", retrieved_ids |-> <<>>]]

\* lines 17-23
DontKnowResult(hint) ==
    [answer     |-> <<"I don't know -- please consult a local expert.">>,
     confidence |-> 0,
     actions    |-> <<"Ask a local agricultural expert">>,
     sources    |-> <<>>,
     meta       |-> [agent |-> hint, retrieved_ids |-> <<>>]]

\* mutant: the call is tried again after an error
AfterCatch_Retry == "prompted"

\* lines 42-46: where control goes once the except clause has run
AfterCatch == "fallback"

NoResult == [unset |-> TRUE]
NoResponse == HttpResponse(FALSE, -1, FALSE, JNull)
NoText == <<"unset">>

InitRun ==
    /\ full_prompt = <<>>
    /\ http_calls = 0
    /\ http_resp = NoResponse
    /\ exc = ""
    /\ response_text = NoText
    /\ result = NoResult
    /\ returns = 0
    /\ raised = FALSE
    /\ caught = FALSE
    /\ fallback_used = FALSE

\* a call of synthesize(question, docs, agent_hint) on a constructed service
Init ==
    /\ question \in RunQuestions
    /\ docs \in DocLists
    /\ agent_hint \in AgentHints
    /\ hf_api_key \in ApiKeys
    /\ pc = "start"
    /\ InitRun

\* lines 16-23
ReturnDontKnow ==
    /\ pc = "start"
    /\ NoDocs(docs)
    /\ result' = DontKnowResult(agent_hint)
    /\ returns' = returns + 1
    /\ pc' = "done"
    /\ UNCHANGED <<question, docs, agent_hint, hf_api_key, full_prompt, http_calls,
                   http_resp, exc, response_text, raised, caught, fallback_used>>

\* lines 25-33
BuildPrompt ==
    /\ pc = "start"
    /\ ~NoDocs(docs)
    /\ \E file \in TemplateFiles :
           full_prompt' = BuildFullPrompt(file, question, docs)
    /\ pc' = "prompted"
    /\ UNCHANGED <<question, docs, agent_hint, hf_api_key, http_calls, http_resp,
                   exc, response_text, result, returns, raised, caught,
                   fallback_used>>

\* line 36, no key: straight to line 46
SkipHF ==
    /\ pc = "prompted"
    /\ ~KeyConfigured(hf_api_key)
    /\ pc' = "fallback"
    /\ UNCHANGED <<question, docs, agent_hint, hf_api_key, full_prompt, http_calls,
                   http_resp, exc, response_text, result, returns, raised, caught,
                   fallback_used>>

\* lines 36-38: await self._call_hf(full_prompt)
CallHF ==
    /\ pc = "prompted"
    /\ KeyConfigured(hf_api_key)
    /\ http_calls < MaxHttpCalls
    /\ \E resp \in HttpResponses :
         LET r == _call_hf(resp)
         IN  /\ http_resp' = resp
             /\ IF r.raised
                THEN /\ exc' = r.exc
                     /\ pc' = "except"
                     /\ UNCHANGED response_text
                ELSE /\ response_text' = r.value
                     /\ pc' = "parse"
                     /\ UNCHANGED exc
    /\ http_calls' = http_calls + 1
    /\ UNCHANGED <<question, docs, agent_hint, hf_api_key, full_prompt, result,
                   returns, raised, caught, fallback_used>>

\* lines 39-41 (a returned dict always holds meta, so it is truthy at line 40)
ParseResponse ==
    /\ pc = "parse"
    /\ LET r == _parse_and_validate_response(response_text, docs, agent_hint)
       IN  IF r.raised
           THEN /\ exc' = r.exc
                /\ pc' = "except"
                /\ UNCHANGED <<result, returns>>
           ELSE IF r.none
           THEN /\ pc' = "fallback"
                /\ UNCHANGED <<exc, result, returns>>
           ELSE /\ result' = r.value
                /\ returns' = returns + 1
                /\ pc' = "done"
                /\ UNCHANGED exc
    /\ UNCHANGED <<question, docs, agent_hint, hf_api_key, full_prompt, http_calls,
                   http_resp, response_text, raised, caught, fallback_used>>

\* lines 42-43: the except clause, or the exception leaving synthesize
HandleException ==
    /\ pc = "except"
    /\ IF SynthesizeCatches(exc)
       THEN /\ caught' = TRUE
            /\ exc' = ""
            /\ pc' = AfterCatch
            /\ UNCHANGED raised
       ELSE /\ raised' = TRUE
            /\ pc' = "done"
            /\ UNCHANGED <<caught, exc>>
    /\ UNCHANGED <<question, docs, agent_hint, hf_api_key, full_prompt, http_calls,
                   http_resp, response_text, result, returns, fallback_used>>

\* lines 45-46
Fallback ==
    /\ pc = "fallback"
    /\ result' = _deterministic_fallback(question, docs, agent_hint)
    /\ fallback_used' = TRUE
    /\ returns' = returns + 1
    /\ pc' = "done"
    /\ UNCHANGED <<question, docs, agent_hint, hf_api_key, full_prompt, http_calls,
                   http_resp, exc, response_text, raised, caught>>

Next ==
    \/ ReturnDontKnow
    \/ BuildPrompt
    \/ SkipHF
    \/ CallHF
    \/ ParseResponse
    \/ HandleException
    \/ Fallback

Spec == Init /\ [][Next]_vars

(* _deterministic_fallback called on its own, on every question and every  *)
(* non-empty document list of the bounds.                                  *)
InitFallback ==
    /\ question \in Questions(MaxWords)
    /\ docs \in DocLists \ {<<>>}
    /\ agent_hint \in AgentHints
    /\ hf_api_key = None
    /\ pc = "fallback"
    /\ InitRun

FallbackSpec == InitFallback /\ [][Fallback]_vars

---------------------------------------------------------------------------
(* Properties.  The expected values are written out from the statements,   *)
(* not taken from the operators above.                                     *)

ResultFields == {"answer", "confidence", "actions", "sources", "meta"}

\* the ids of the documents that carry one, in document order
RECURSIVE IdsOfDocs(_)
IdsOfDocs(ds) ==
    IF ds = <<>> THEN <<>>
    ELSE (IF "id" \in DOMAIN ds[1] THEN <<ds[1].id>> ELSE <<>>) \o IdsOfDocs(Tail(ds))

\* a text without its whitespace
NonWs(t) == SelectSeq(t, LAMBDA x : x # TokWs)

\* a text without a leading json fence and a trailing fence
Unfenced(t) ==
    LET b  == NonWs(t)
        b1 == IF b # <<>> /\ b[1] = TokFenceJson THEN SubSeq(b, 2, Len(b)) ELSE b
    IN  IF b1 # <<>> /\ b1[Len(b1)] = TokFence THEN SubSeq(b1, 1, Len(b1) - 1) ELSE b1

\* the returned text is, fences apart, one JSON object with the four fields
ValidModelText(v) ==
    /\ v[1] = "string"
    /\ LET u == Unfenced(v[2])
       IN  /\ Len(u) = 1
           /\ u[1][1] = "json"
           /\ u[1][2][1] = "object"
           /\ {"answer", "confidence", "actions", "sources"} \subseteq DOMAIN u[1][2][2]

\* the members of that object
ModelObject(v) == Unfenced(v[2])[1][2][2]

\* the POST was sent and the call failed: transport exception, non-200
\* status, or a body of an unexpected format
CallFailed ==
    /\ http_resp # NoResponse
    /\ \/ ~http_resp.transport_ok
       \/ http_resp.status_code # 200
       \/ ~http_resp.body_is_json
       \/ http_resp.data[1] \notin {"array", "object"}
       \/ http_resp.data = JArr(<<>>)
       \/ (http_resp.data[1] = "array" /\ http_resp.data[2][1][1] # "object")

IrrigationText ==
    <<"Check soil moisture at 2-3 inch depth and consider current rainfall before irrigating.">>
IPMText ==
    <<"Use Integrated Pest Management (IPM) practices and consult local experts for specific guidance.">>

\* C1: with an empty document list, whatever the question, the agent hint and
\* the API key, synthesize returns the fixed "don't know" result (answer,
\* confidence 0.0, the one action, no sources, meta.agent the hint, no
\* retrieved ids) and the endpoint is never called.
C1_EmptyDocsDontKnow ==
    docs = <<>> =>
        /\ http_calls = 0
        /\ pc \in {"start", "done"}
        /\ pc = "done" =>
             /\ ~raised
             /\ result = [answer     |-> <<"I don't know -- please consult a local expert.">>,
                          confidence |-> 0,
                          actions    |-> <<"Ask a local agricultural expert">>,
                          sources    |-> <<>>,
                          meta       |-> [agent |-> agent_hint, retrieved_ids |-> <<>>]]

C1_Witness ==
    /\ pc = "done"
    /\ docs = <<>>
    /\ hf_api_key = "hf_token"
    /\ agent_hint = "irrigation"
    /\ question # <<>>
    /\ returns = 1

\* C2: with no API key (absent or empty) and a non-empty document list, the
\* endpoint is never called and synthesize returns the deterministic fallback's
\* result for (question, docs, agent_hint), which has all five fields.
C2_NoKeyFallback ==
    (hf_api_key \in {None, ""} /\ docs # <<>>) =>
        /\ http_calls = 0
        /\ pc = "done" =>
             /\ ~raised
             /\ fallback_used
             /\ result = _deterministic_fallback(question, docs, agent_hint)
             /\ DOMAIN result = ResultFields

C2_Witness ==
    /\ pc = "done"
    /\ hf_api_key = ""
    /\ Len(docs) = 2
    /\ returns = 1
    /\ DOMAIN result = ResultFields

\* C3: every result of the deterministic fallback has confidence exactly 0.5
\* (5 tenths) and between 1 and 2 actions.
C3_FallbackConfidenceAndActions ==
    (pc = "done" /\ fallback_used) =>
        /\ result.confidence = 5
        /\ Len(result.actions) >= 1
        /\ Len(result.actions) <= 2

C3_Witness ==
    /\ pc = "done"
    /\ fallback_used
    /\ Len(result.actions) = 1
    /\ result.confidence = 5
    /\ Len(docs) = 3

\* C4: with a key and documents, when the call returns a text that is not
\* JSON, JSON without all four fields, JSON that is not an object, or no text
\* at all, synthesize does not raise and returns the fallback's result.
C4_InvalidTextFallsBack ==
    (pc = "done" /\ response_text # NoText /\ ~ValidModelText(response_text)) =>
        /\ ~raised
        /\ returns = 1
        /\ fallback_used
        /\ result = _deterministic_fallback(question, docs, agent_hint)

C4_Witness ==
    /\ pc = "done"
    /\ response_text = JStr(<<TokJson(NoConfidenceObject)>>)
    /\ fallback_used
    /\ ~raised

\* C5: with a key and documents, when the call fails (transport exception,
\* non-200 status, unexpected response format) the error is caught inside
\* synthesize, nothing reaches the caller, and the fallback's result is
\* returned.
C5_CallFailureFallsBack ==
    (pc = "done" /\ CallFailed) =>
        /\ ~raised
        /\ caught
        /\ returns = 1
        /\ fallback_used
        /\ result = _deterministic_fallback(question, docs, agent_hint)

C5_Witness ==
    /\ pc = "done"
    /\ http_resp # NoResponse
    /\ ~http_resp.transport_ok
    /\ caught
    /\ fallback_used

C7_IrrigatGetsIrrigation ==
    (pc = "done" /\ fallback_used /\ Contains(Lower(question), KwIrrigat)) =>
        /\ result.answer = IrrigationText
        /\ result.actions = <<"Check soil moisture", "Review local forecast">>

C7_Witness ==
    /\ pc = "done"
    /\ fallback_used
    /\ Contains(Lower(question), KwIrrigat)
    /\ ~Contains(question, KwIrrigat)
    /\ Contains(question, KwPest)
    /\ result.answer = IrrigationText

\* C8 as stated: in the fallback, every question containing "pest" gets the IPM
\* answer and the actions "Remove affected parts", "Consult KVK expert".
C8_PestAlwaysIPM ==
    (pc = "done" /\ fallback_used /\ Contains(question, KwPest)) =>
        /\ result.answer = IPMText
        /\ result.actions = <<"Remove affected parts", "Consult KVK expert">>

\* C8 (amended): in the fallback, every question containing "pest" and none of
\* "water", "irrigat", "rain" (in any letter case) gets the IPM answer and the
\* actions "Remove affected parts", "Consult KVK expert".
C8_PestWithoutIrrigationIPM ==
    (/\ pc = "done"
     /\ fallback_used
     /\ Contains(Lower(question), KwPest)
     /\ \A k \in {KwWater, KwIrrigat, KwRain} : ~Contains(Lower(question), k)) =>
        /\ result.answer = IPMText
        /\ result.actions = <<"Remove affected parts", "Consult KVK expert">>

C8_Witness ==
    /\ pc = "done"
    /\ fallback_used
    /\ Contains(question, KwPest)
    /\ Contains(question, KwFertilizer)
    /\ result.answer = IPMText

\* C9: the fallback's sources mirror the input documents: one entry per
\* document, in order, with the document's title (or "Agricultural Guide"),
\* its source_url (or "#") and the first 150 characters of its content; no
\* document is dropped.
C9_SourcesMirrorDocs ==
    (pc = "done" /\ fallback_used) =>
        /\ Len(result.sources) = Len(docs)
        /\ \A i \in 1..Len(docs) :
             LET d == docs[i]
                 c == IF "content" \in DOMAIN d THEN d.content ELSE <<>>
                 n == IF Len(c) < 150 THEN Len(c) ELSE 150
             IN  /\ result.sources[i].title =
                       (IF "title" \in DOMAIN d THEN d.title ELSE "Agricultural Guide")
                 /\ result.sources[i].url =
                       (IF "source_url" \in DOMAIN d THEN d.source_url ELSE "#")
                 /\ result.sources[i].snippet = [j \in 1..n |-> c[j]]

C9_Witness ==
    /\ pc = "done"
    /\ fallback_used
    /\ docs = <<DocBare, DocNoContent, DocFull>>
    /\ Len(result.sources) = 3
    /\ Len(result.sources[3].snippet) = 150
    /\ Len(docs[3].content) > 150

\* how far along line 14 to line 46 a position is
PcRank ==
    CASE pc = "start"    -> 0
      [] pc = "prompted" -> 1
      [] pc = "parse"    -> 2
      [] pc = "except"   -> 3
      [] pc = "fallback" -> 4
      [] pc = "done"     -> 5

\* some action's guard holds (the guards of Next, by position)
CanStep ==
    \/ pc = "start" /\ (NoDocs(docs) \/ ~NoDocs(docs))
    \/ pc = "prompted" /\ ~KeyConfigured(hf_api_key)
    \/ pc = "prompted" /\ KeyConfigured(hf_api_key) /\ http_calls < MaxHttpCalls
    \/ pc \in {"parse", "except", "fallback"}

\* C10: in one run the endpoint is called at most once, and only with
\* documents and a configured key; after a failed call or an invalid response
\* there is no second call and the next step is the fallback; every run ends,
\* having returned exactly one result (each step moves strictly forward, a
\* step is possible until the run has returned, and a run that has returned
\* has returned once).
C10_SingleCallThenFallback ==
    /\ [](/\ http_calls <= 1
          /\ http_calls = 1 => (docs # <<>> /\ hf_api_key = "hf_token")
          /\ pc # "done" => (returns = 0 /\ CanStep)
          /\ pc = "done" => (returns = 1 /\ ~raised /\ result # NoResult))
    /\ [][/\ PcRank' > PcRank
          /\ http_calls' >= http_calls
          /\ http_calls = 1 => http_calls' = 1
          /\ pc = "except" => pc' = "fallback"
          /\ (pc = "parse" /\ pc' # "done") => pc' \in {"fallback", "except"}
          /\ pc = "fallback" => (pc' = "done" /\ fallback_used')]_vars

C10_Witness ==
    /\ pc = "done"
    /\ http_calls = 1
    /\ caught
    /\ fallback_used
    /\ returns = 1

===========================================================================
